---- MODULE Spec2Model ----
(***************************************************************************)
(* A model of podcastfy/text_to_speech.py: the TextToSpeech class.        *)
(*                                                                         *)
(* Text is a sequence of tokens.  Every token stands for one fixed piece   *)
(* of concrete text: the single characters "<", ">", "/", " " and "\n",    *)
(* and the words "Person1", "Person2", "p", "x" and "Bye", none of which   *)
(* can be spelled with the others.  The regular expressions of the source  *)
(* are computed on these sequences as Python's re module computes them on  *)
(* the concrete text (leftmost match, greedy and lazy quantifiers with     *)
(* backtracking, \b, \s, $).                                               *)
(*                                                                         *)
(* Audio is a clip identity (sequential backends) or a duration in tenths  *)
(* of a second (google backend); the rounding of durations to samples is   *)
(* not modelled.  Every call that leaves the program (the backend, a file  *)
(* write, an export, a removal) either succeeds or raises; a write or an   *)
(* export that raises leaves no file.  output_file ends in ".mp3".         *)
(***************************************************************************)
EXTENDS Integers, Sequences, FiniteSets, TLC

VARIABLES
    input_text,     \* the text handed to clean_tss_markup / split_qa / convert_to_speech
    cleaned,        \* outputs of successive clean_tss_markup calls, oldest first
    qa,             \* <<result>> of split_qa(input_text) once called, <<>> before
    tpc,            \* text functions: "ready" while calls can be made, "off" otherwise
    model,          \* self.model of the TextToSpeech object of the current run
    pc,             \* where convert_to_speech stands
    run,            \* number of convert_to_speech calls started
    qa_pairs,       \* local qa_pairs
    counter,        \* local counter
    audio_files,    \* local audio_files: the names of the clips this run wrote
    temp_dir,       \* the files of self.temp_audio_dir: name -> clip
    pending,        \* audio returned by the backend and not yet written to its file
    calls,          \* the synthesis calls of this run, in order
    written,        \* the output files this run has written: path -> content
    combined_q,     \* duration of combined_q
    combined_a,     \* duration of combined_a
    last_overlap_duration,
    silence_duration,   \* the last computed silence_duration
    silence,        \* duration of the last AudioSegment.silent(...) built
    error,          \* the step whose exception convert_to_speech raised, or "none"
    log             \* the logger.error records of this run

tvars == <<input_text, cleaned, qa, tpc>>

pvars == <<model, pc, run, qa_pairs, counter, audio_files, temp_dir, pending, calls,
           written, combined_q, combined_a, last_overlap_duration, silence_duration,
           silence, error, log>>

vars == <<tvars, pvars>>

(***************************************************************************)
(* Bounds                                                                  *)
(***************************************************************************)
MaxLen == 4        \* longest raw token string
MaxSegs == 4       \* most segments of a segment-built transcript
MaxPairs == 2      \* most (Person1, Person2) pairs of a well-formed transcript
MaxApply == 2      \* most successive applications of clean_tss_markup
MaxTurns == 1      \* most (Person1, Person2) pairs of a transcript handed to convert_to_speech
MaxRuns == 2       \* most convert_to_speech calls sharing one temp_audio_dir

(***************************************************************************)
(* Characters                                                              *)
(***************************************************************************)
\* \s of the re module, and what str.strip / str.split treat as whitespace
IsSpace(t) == t \in {" ", "\n"}

\* \w of the re module: every token but the punctuation and the whitespace
IsWord(t) == t \notin {"<", ">", "/", " ", "\n"}

\* \b after position i-1 (before position i), the token before being a word
WordBoundaryAfterWord(s, i) == i > Len(s) \/ ~IsWord(s[i])

\* s[i..] starts with the tokens of lit
StartsWith(s, i, lit) ==
    /\ i >= 1
    /\ i + Len(lit) - 1 <= Len(s)
    /\ \A k \in 1..Len(lit) : s[i + k - 1] = lit[k]

OpenTag(tag) == <<"<", tag, ">">>
CloseTag(tag) == <<"<", "/", tag, ">">>

(***************************************************************************)
(* clean_tss_markup                                                        *)
(***************************************************************************)
supported_tags == {"speak", "break", "lang", "p", "phoneme", "s", "say-as", "sub"}

additional_tags == <<"Person1", "Person2">>

Range(f) == {f[k] : k \in DOMAIN f}

\* (?:speak|...|Person2)\b matches at position i
SupportedNameAt(s, i, tags) ==
    /\ i <= Len(s)
    /\ s[i] \in tags
    /\ WordBoundaryAfterWord(s, i + 1)

\* the least j >= i with s[j] = ">", or 0
RECURSIVE FirstGT(_, _)
FirstGT(s, i) ==
    IF i > Len(s) THEN 0
    ELSE IF s[i] = ">" THEN i
    ELSE FirstGT(s, i + 1)

\* [^>]+> from position i: the position of the closing ">", or 0
RestOfTag(s, i) ==
    IF i <= Len(s) /\ s[i] # ">" THEN FirstGT(s, i + 1) ELSE 0

\* The match of  </?(?!(?:tags)\b)[^>]+>  starting at i: its last position, or 0.
\* The optional "/" is tried first; when the rest fails with it, the match is
\* retried without it, the "/" then being the first character of [^>]+.
UnsupportedTagEnd(s, i, tags) ==
    IF i > Len(s) \/ s[i] # "<" THEN 0
    ELSE LET withSlash ==
                 IF i + 1 <= Len(s) /\ s[i + 1] = "/" /\ ~SupportedNameAt(s, i + 2, tags)
                 THEN RestOfTag(s, i + 2) ELSE 0
             withoutSlash ==
                 IF ~SupportedNameAt(s, i + 1, tags)
                 THEN RestOfTag(s, i + 1) ELSE 0
         IN  IF withSlash > 0 THEN withSlash ELSE withoutSlash

\* re.sub(pattern, '', input_text), from position i on
RECURSIVE RemoveUnsupported(_, _, _)
RemoveUnsupported(s, i, tags) ==
    IF i > Len(s) THEN <<>>
    ELSE LET e == UnsupportedTagEnd(s, i, tags)
         IN  IF e > 0 THEN RemoveUnsupported(s, e + 1, tags)
             ELSE <<s[i]>> \o RemoveUnsupported(s, i + 1, tags)

\* the last position of the run of whitespace starting at i (i - 1 when none)
RECURSIVE SpaceRunEnd(_, _)
SpaceRunEnd(s, i) ==
    IF i <= Len(s) /\ IsSpace(s[i]) THEN SpaceRunEnd(s, i + 1) ELSE i - 1

\* the greatest j in lo..hi with s[j] = "\n", or 0
RECURSIVE LastNewline(_, _, _)
LastNewline(s, lo, hi) ==
    IF hi < lo THEN 0
    ELSE IF s[hi] = "\n" THEN hi
    ELSE LastNewline(s, lo, hi - 1)

\* re.sub(r'\n\s*\n', '\n', cleaned_text), from position i on
RECURSIVE CollapseEmptyLines(_, _)
CollapseEmptyLines(s, i) ==
    IF i > Len(s) THEN <<>>
    ELSE LET e == IF s[i] = "\n" THEN LastNewline(s, i + 1, SpaceRunEnd(s, i + 1)) ELSE 0
         IN  IF e > 0 THEN <<"\n">> \o CollapseEmptyLines(s, e + 1)
             ELSE <<s[i]>> \o CollapseEmptyLines(s, i + 1)

\* $ without re.MULTILINE: the end of the text, or just before a final newline
AtEnd(s, j) == j = Len(s) + 1 \/ (j = Len(s) /\ s[j] = "\n")

\* the lookahead with its first alternative lost: (?=$)
ClosePoint_EndOnly(s, j, tags) == AtEnd(s, j)

\* (?=<(?:Person1|Person2)>|$) at position j
ClosePoint(s, j, tags) ==
    \/ \E t \in Range(tags) : StartsWith(s, j, OpenTag(t))
    \/ AtEnd(s, j)

\* (.*?) followed by the lookahead: the least j >= i where the lookahead holds
RECURSIVE NextClosePoint(_, _, _)
NextClosePoint(s, i, tags) ==
    IF ClosePoint(s, i, tags) \/ i > Len(s) THEN i
    ELSE NextClosePoint(s, i + 1, tags)

\* the replacement of one match: <tag>\1</tag>
Replacement(tag, body) == OpenTag(tag) \o body \o CloseTag(tag)

\* re.sub(f'<{tag}>(.*?)(?=<(?:...)>|$)', f'<{tag}>\\1</{tag}>', ..., re.DOTALL)
RECURSIVE CloseOpenTags(_, _, _, _)
CloseOpenTags(s, i, tag, tags) ==
    IF i > Len(s) THEN <<>>
    ELSE IF StartsWith(s, i, OpenTag(tag))
    THEN LET j == NextClosePoint(s, i + 3, tags)
         IN  Replacement(tag, SubSeq(s, i + 3, j - 1)) \o CloseOpenTags(s, j, tag, tags)
    ELSE <<s[i]>> \o CloseOpenTags(s, i + 1, tag, tags)

\* the for loop over additional_tags, from the k-th tag on
RECURSIVE EnsureClosingTags(_, _, _)
EnsureClosingTags(s, k, tags) ==
    IF k > Len(tags) THEN s
    ELSE EnsureClosingTags(CloseOpenTags(s, 1, tags[k], tags), k + 1, tags)

RECURSIVE LStrip(_)
LStrip(s) == IF s # <<>> /\ IsSpace(s[1]) THEN LStrip(Tail(s)) ELSE s

RECURSIVE RStrip(_)
RStrip(s) ==
    IF s # <<>> /\ IsSpace(s[Len(s)]) THEN RStrip(SubSeq(s, 1, Len(s) - 1)) ELSE s

\* str.strip()
Strip(s) == RStrip(LStrip(s))

clean_tss_markup(text, tags) ==
    LET all == supported_tags \cup Range(tags)
        a == RemoveUnsupported(text, 1, all)
        b == CollapseEmptyLines(a, 1)
        c == EnsureClosingTags(b, 1, tags)
    IN  Strip(c)

(***************************************************************************)
(* split_qa                                                                *)
(***************************************************************************)
ending_message == <<"Bye">>

\* the least j >= i at which lit starts, or 0
RECURSIVE Find(_, _, _)
Find(s, i, lit) ==
    IF i + Len(lit) - 1 > Len(s) THEN 0
    ELSE IF StartsWith(s, i, lit) THEN i
    ELSE Find(s, i + 1, lit)

\* </Person1>\s*<Person2> at position j: the position after it, or 0
Middle(s, j) ==
    IF StartsWith(s, j, CloseTag("Person1"))
    THEN LET k == SpaceRunEnd(s, j + 4) + 1
         IN  IF StartsWith(s, k, OpenTag("Person2")) THEN k + 3 ELSE 0
    ELSE 0

\* <Person1>(.*?)</Person1>\s*<Person2>(.*?)</Person2> with the first group
\* starting at i and ending no earlier than j - 1:
\* <<end of group 1, start of group 2, end of group 2>>, or <<>>
RECURSIVE PairFrom(_, _, _)
PairFrom(s, i, j) ==
    IF j > Len(s) THEN <<>>
    ELSE LET m == Middle(s, j)
             e == IF m > 0 THEN Find(s, m, CloseTag("Person2")) ELSE 0
         IN  IF e > 0 THEN <<j - 1, m, e - 1>>
             ELSE PairFrom(s, i, j + 1)

\* re.findall(pattern, input_text, re.DOTALL), from position i on
RECURSIVE FindAll(_, _)
FindAll(s, i) ==
    IF i > Len(s) THEN <<>>
    ELSE LET g == IF StartsWith(s, i, OpenTag("Person1")) THEN PairFrom(s, i + 3, i + 3)
                  ELSE <<>>
         IN  IF g # <<>>
             THEN <<  <<SubSeq(s, i + 3, g[1]), SubSeq(s, g[2], g[3])>>  >>
                      \o FindAll(s, g[3] + 5)
             ELSE FindAll(s, i + 1)

\* ' '.join(text.split()) of text without leading whitespace
RECURSIVE JoinWords(_)
JoinWords(s) ==
    IF s = <<>> THEN <<>>
    ELSE IF IsSpace(s[1])
    THEN LET r == LStrip(s) IN IF r = <<>> THEN <<>> ELSE <<" ">> \o JoinWords(r)
    ELSE <<s[1]>> \o JoinWords(Tail(s))

\* ' '.join(text.split()).strip()
Normalize(s) == Strip(JoinWords(LStrip(s)))

split_qa(text) ==
    LET full == text \o OpenTag("Person2") \o ending_message \o CloseTag("Person2")
        matches == FindAll(full, 1)
    IN  [k \in 1..Len(matches) |-> <<Normalize(matches[k][1]), Normalize(matches[k][2])>>]

(***************************************************************************)
(* Input texts                                                             *)
(***************************************************************************)
RawAlphabet == {"<", ">", "/", "Person1", "Person2", "p", "x", "\n"}

RECURSIVE SeqsUpTo(_, _)
SeqsUpTo(S, n) ==
    IF n = 0 THEN {<<>>}
    ELSE LET shorter == SeqsUpTo(S, n - 1)
         IN  shorter \cup {Append(s, x) : s \in {t \in shorter : Len(t) = n - 1}, x \in S}

RawTexts == SeqsUpTo(RawAlphabet, MaxLen)

Segments == {OpenTag("Person1"), CloseTag("Person1"), OpenTag("Person2"),
             CloseTag("Person2"), <<"x">>}

RECURSIVE Flatten(_)
Flatten(ss) == IF ss = <<>> THEN <<>> ELSE ss[1] \o Flatten(Tail(ss))

SegmentTexts == {Flatten(ss) : ss \in SeqsUpTo(Segments, MaxSegs)}

\* a well-formed transcript: closed Person1/Person2 pairs, strictly alternating
Lines == {<<"x">>, <<"x", " ", "x">>}
Separators == {<<>>, <<"\n">>}
PairShapes == [a : Lines, sep : Separators, b : Lines]

PairText(p) ==
    OpenTag("Person1") \o p.a \o CloseTag("Person1") \o p.sep
        \o OpenTag("Person2") \o p.b \o CloseTag("Person2")

RECURSIVE Transcript(_)
Transcript(ps) == IF ps = <<>> THEN <<>> ELSE PairText(ps[1]) \o Transcript(Tail(ps))

WellFormed == SeqsUpTo(PairShapes, MaxPairs)

Texts == RawTexts \cup SegmentTexts \cup {Transcript(ps) : ps \in WellFormed}

(***************************************************************************)
(* The text functions as operations                                        *)
(***************************************************************************)
\* no convert_to_speech call: the state of a fresh object
Idle ==
    /\ model = "none"
    /\ pc = "idle"
    /\ run = 0
    /\ qa_pairs = <<>>
    /\ counter = 0
    /\ audio_files = <<>>
    /\ temp_dir = {}
    /\ pending = <<>>
    /\ calls = <<>>
    /\ written = {}
    /\ combined_q = 0
    /\ combined_a = 0
    /\ last_overlap_duration = 0
    /\ silence_duration = 0
    /\ silence = 0
    /\ error = "none"
    /\ log = <<>>

TInit ==
    /\ input_text \in Texts
    /\ cleaned = <<>>
    /\ qa = <<>>
    /\ tpc = "ready"
    /\ Idle

\* clean_tss_markup applied to the input, then to its own output
Clean ==
    /\ tpc = "ready"
    /\ Len(cleaned) < MaxApply
    /\ cleaned' = Append(cleaned,
                         clean_tss_markup(IF cleaned = <<>> THEN input_text
                                          ELSE cleaned[Len(cleaned)], additional_tags))
    /\ UNCHANGED <<input_text, qa, tpc, pvars>>

\* split_qa applied to the input
Split ==
    /\ tpc = "ready"
    /\ qa = <<>>
    /\ qa' = <<split_qa(input_text)>>
    /\ UNCHANGED <<input_text, cleaned, tpc, pvars>>

TNext == Clean \/ Split

SpecText == TInit /\ [][TNext]_vars

(***************************************************************************)
(* convert_to_speech                                                       *)
(***************************************************************************)
Backends == {"openai", "elevenlabs", "google"}

\* durations of the clips the google backend returns, in tenths of a second
Durations == {3, 10}

\* random.uniform(0.2, 0.4), in tenths of a second: the ends of the band
Overlaps == {2, 4}

\* a file system directory: a set of <<name, content>> with one content per name
Names(dir) == {f[1] : f \in dir}
Content(dir, name) == (CHOOSE f \in dir : f[1] = name)[2]
WriteFile(dir, name, content) == {f \in dir : f[1] # name} \cup {<<name, content>>}
RemoveFiles(dir, names) == {f \in dir : f[1] \notin names}

\* the transcripts handed to convert_to_speech: up to MaxTurns closed pairs,
\* then possibly one more Person1 line, which the ending message answers
OnePair == [a |-> <<"x">>, sep |-> <<>>, b |-> <<"x">>]
LastLine == OpenTag("Person1") \o <<"x">> \o CloseTag("Person1")
Transcripts ==
    {Transcript(ps) \o tail : ps \in SeqsUpTo({OnePair}, MaxTurns), tail \in {<<>>, LastLine}}

\* cleaned_text = self.clean_tss_markup(text); qa_pairs = self.split_qa(cleaned_text)
Segmented ==
    [text \in Transcripts |-> split_qa(clean_tss_markup(text, additional_tags))]

Init ==
    /\ input_text = <<>>
    /\ cleaned = <<>>
    /\ qa = <<>>
    /\ tpc = "off"
    /\ Idle

\* the number of clips the loops of a run synthesize
Clips == 2 * Len(qa_pairs)

\* the clip the k-th synthesis call of this run returns
Clip(k) == <<run, k>>

\* except Exception as e: logger.error(...); raise
Fail(step, records) ==
    /\ pc' = "failed"
    /\ error' = step
    /\ log' = log \o records

\* convert_to_speech up to the first call of the backend: clean_tss_markup,
\* the dispatch on self.model, split_qa and the locals' initial values
StartRun(m, text) ==
    /\ tpc = "off"
    /\ pc \in {"idle", "done", "failed"}
    /\ run < MaxRuns
    /\ run' = run + 1
    /\ model' = m
    /\ input_text' = text
    /\ qa_pairs' = Segmented[text]
    /\ counter' = 0
    /\ audio_files' = <<>>
    /\ pending' = <<>>
    /\ calls' = <<>>
    /\ written' = {}
    /\ combined_q' = 0
    /\ combined_a' = 0
    /\ last_overlap_duration' = 0
    /\ silence_duration' = 0
    /\ silence' = 0
    /\ error' = "none"
    /\ log' = <<>>
    /\ pc' = IF qa_pairs' # <<>> THEN "synth"
             ELSE IF m = "google" THEN "trailing" ELSE "merge"
    /\ UNCHANGED <<cleaned, qa, tpc, temp_dir>>

\* openai: counter += 1 and openai.audio.speech.create(...)
OpenAISynth ==
    /\ pc = "synth" /\ model = "openai"
    /\ counter' = counter + 1
    /\ \/ /\ calls' = Append(calls, [ok |-> TRUE, dur |-> 0, overlap |-> 0])
          /\ pending' = <<Clip(Len(calls) + 1)>>
          /\ pc' = "write"
          /\ UNCHANGED <<error, log>>
       \/ /\ calls' = Append(calls, [ok |-> FALSE, dur |-> 0, overlap |-> 0])
          /\ Fail("synth", <<"Error converting text to speech with OpenAI">>)
          /\ UNCHANGED pending
    /\ UNCHANGED <<tvars, model, run, qa_pairs, audio_files, temp_dir, written,
                   combined_q, combined_a, last_overlap_duration, silence_duration, silence>>

\* elevenlabs: self.client.generate(...), for the question and then the answer
ElevenLabsGenerate ==
    /\ pc = "synth" /\ model = "elevenlabs"
    /\ \/ /\ calls' = Append(calls, [ok |-> TRUE, dur |-> 0, overlap |-> 0])
          /\ pending' = Append(pending, Clip(Len(calls) + 1))
          /\ pc' = IF Len(pending') = 2 THEN "write" ELSE "synth"
          /\ UNCHANGED <<error, log>>
       \/ /\ calls' = Append(calls, [ok |-> FALSE, dur |-> 0, overlap |-> 0])
          /\ Fail("synth", <<"Error converting text to speech with ElevenLabs">>)
          /\ UNCHANGED pending
    /\ UNCHANGED <<tvars, model, run, qa_pairs, counter, audio_files, temp_dir, written,
                   combined_q, combined_a, last_overlap_duration, silence_duration, silence>>

\* the name of the file the next clip is written to: f"{temp_audio_dir}{counter}.{audio_format}"
\* (elevenlabs adds one to counter when it writes, openai before it calls the backend)
NextName == IF model = "elevenlabs" THEN counter + 1 ELSE counter

\* with open(file_name, "wb") as file: ...write...; audio_files.append(file_name)
WriteClip ==
    /\ pc = "write"
    /\ counter' = NextName
    /\ \/ /\ temp_dir' = WriteFile(temp_dir, NextName, Head(pending))
          /\ audio_files' = Append(audio_files, NextName)
          /\ pending' = Tail(pending)
          /\ pc' = IF pending' # <<>> THEN "write"
                   ELSE IF Len(calls) < Clips THEN "synth"
                   ELSE "merge"
          /\ UNCHANGED <<error, log>>
       \/ /\ Fail("write", <<IF model = "elevenlabs"
                             THEN "Error converting text to speech with ElevenLabs"
                             ELSE "Error converting text to speech with OpenAI">>)
          /\ UNCHANGED <<temp_dir, audio_files, pending>>
    /\ UNCHANGED <<tvars, model, run, qa_pairs, calls, written,
                   combined_q, combined_a, last_overlap_duration, silence_duration, silence>>

\* natural_sort_key of the file named f"{n}.{audio_format}": ['', n, '.' + audio_format]
natural_sort_key(n) == n

\* sorted(names, key=natural_sort_key)
RECURSIVE Sorted(_)
Sorted(names) ==
    IF names = {} THEN <<>>
    ELSE LET first == CHOOSE n \in names :
                          \A o \in names : natural_sort_key(n) <= natural_sort_key(o)
         IN  <<first>> \o Sorted(names \ {first})

\* combined: every file of the directory, in sorted order
Merged(dir) == LET order == Sorted(Names(dir))
               IN  [k \in 1..Len(order) |-> Content(dir, order[k])]

\* __merge_audio_files(self.temp_audio_dir, output_file)
Merge ==
    /\ pc = "merge"
    /\ \/ /\ written' = WriteFile(written, "output", Merged(temp_dir))
          /\ pc' = "cleanup"
          /\ UNCHANGED <<error, log>>
       \/ /\ Fail("assemble", <<"Error merging audio files",
                                IF model = "elevenlabs"
                                THEN "Error converting text to speech with ElevenLabs"
                                ELSE "Error converting text to speech with OpenAI">>)
          /\ UNCHANGED written
    /\ UNCHANGED <<tvars, model, run, qa_pairs, counter, audio_files, temp_dir, pending, calls,
                   combined_q, combined_a, last_overlap_duration, silence_duration, silence>>

\* for file in audio_files: os.remove(file); the k-th removal fails (k = 0: none does)
Cleanup ==
    /\ pc = "cleanup"
    /\ \E k \in 0..Len(audio_files) :
          IF k = 0
          THEN /\ temp_dir' = RemoveFiles(temp_dir, Range(audio_files))
               /\ pc' = "done"
               /\ UNCHANGED <<error, log>>
          ELSE /\ temp_dir' = RemoveFiles(temp_dir, Range(SubSeq(audio_files, 1, k - 1)))
               /\ Fail("remove", <<IF model = "elevenlabs"
                                   THEN "Error converting text to speech with ElevenLabs"
                                   ELSE "Error converting text to speech with OpenAI">>)
    /\ UNCHANGED <<tvars, model, run, qa_pairs, counter, audio_files, pending, calls, written,
                   combined_q, combined_a, last_overlap_duration, silence_duration, silence>>

\* the silence with the previous overlap forgotten
SilenceDuration_NoPrevious(duration, overlap, last) == duration - overlap

\* silence_duration = duration_seconds - overlap_duration - last_overlap_duration
SilenceDuration(duration, overlap, last) == duration - overlap - last

\* the clip of the k-th call is a question (the first of its pair)
IsQuestion(k) == k % 2 = 1

\* google: one pass of the inner loop: synthesize_speech, the silence for the
\* other speaker, and the two appends.  AudioSegment.silent is pydub's: for a
\* negative duration it either returns an empty segment or raises.
GoogleClip ==
    /\ pc = "synth" /\ model = "google"
    /\ \E d \in Durations, o \in Overlaps :
          \/ /\ calls' = Append(calls, [ok |-> FALSE, dur |-> 0, overlap |-> 0])
             /\ Fail("synth", <<"Error converting text to speech with OpenAI">>)
             /\ UNCHANGED <<combined_q, combined_a, last_overlap_duration,
                            silence_duration, silence>>
          \/ /\ calls' = Append(calls, [ok |-> TRUE, dur |-> d, overlap |-> o])
             /\ silence_duration' = SilenceDuration(d, o, last_overlap_duration)
             /\ last_overlap_duration' = o
             /\ \/ /\ silence' = IF silence_duration' < 0 THEN 0 ELSE silence_duration'
                   /\ IF IsQuestion(Len(calls'))
                      THEN /\ combined_q' = combined_q + d
                           /\ combined_a' = combined_a + silence'
                      ELSE /\ combined_q' = combined_q + silence'
                           /\ combined_a' = combined_a + d
                   /\ pc' = IF Len(calls') < Clips THEN "synth" ELSE "trailing"
                   /\ UNCHANGED <<error, log>>
                \/ /\ silence_duration' < 0
                   /\ Fail("assemble", <<"Error converting text to speech with OpenAI">>)
                   /\ UNCHANGED <<combined_q, combined_a, silence>>
    /\ UNCHANGED <<tvars, model, run, qa_pairs, counter, audio_files, temp_dir, pending, written>>

\* combined_q += AudioSegment.silent(duration=last_overlap_duration * 1000)
Trailing ==
    /\ pc = "trailing"
    /\ silence' = last_overlap_duration
    /\ combined_q' = combined_q + silence'
    /\ pc' = "export_q"
    /\ UNCHANGED <<tvars, model, run, qa_pairs, counter, audio_files, temp_dir, pending, calls,
                   written, combined_a, last_overlap_duration, silence_duration, error, log>>

\* one of the three exports of the google backend
Export(at, path, content, next) ==
    /\ pc = at
    /\ \/ /\ written' = WriteFile(written, path, content)
          /\ pc' = next
          /\ UNCHANGED <<error, log>>
       \/ /\ Fail("export", <<"Error converting text to speech with OpenAI">>)
          /\ UNCHANGED written
    /\ UNCHANGED <<tvars, model, run, qa_pairs, counter, audio_files, temp_dir, pending, calls,
                   combined_q, combined_a, last_overlap_duration, silence_duration, silence>>

\* combined_q.export(output_file.replace('.mp3', '_question.mp3'), ...)
ExportQuestion == Export("export_q", "output_question", combined_q, "export_a")

\* combined_a.export(output_file.replace('.mp3', '_answer.mp3'), ...)
ExportAnswer == Export("export_a", "output_answer", combined_a, "export_mix")

\* combined_q.overlay(combined_a).export(output_file, ...): an overlay is as
\* long as the segment it is laid over
ExportMix == Export("export_mix", "output", combined_q, "done")

Next ==
    \/ \E m \in Backends, text \in Transcripts : StartRun(m, text)
    \/ OpenAISynth
    \/ ElevenLabsGenerate
    \/ WriteClip
    \/ Merge
    \/ Cleanup
    \/ GoogleClip
    \/ Trailing
    \/ ExportQuestion
    \/ ExportAnswer
    \/ ExportMix

Spec == Init /\ [][Next]_vars

\* the runs of objects built with model='google'
OverlayNext ==
    \/ \E text \in Transcripts : StartRun("google", text)
    \/ GoogleClip
    \/ Trailing
    \/ ExportQuestion
    \/ ExportAnswer
    \/ ExportMix

SpecOverlay == Init /\ [][OverlayNext]_vars

(***************************************************************************)
(* Properties of the text functions                                        *)
(***************************************************************************)
\* the tag starting at position i whose name is in names: <<kind, name>>, or <<>>
TagAt(s, i, names) ==
    IF \E t \in names : StartsWith(s, i, OpenTag(t))
    THEN <<"open", s[i + 1]>>
    ELSE IF \E t \in names : StartsWith(s, i, CloseTag(t))
    THEN <<"close", s[i + 2]>>
    ELSE <<>>

\* the tags of s whose names are in names, in text order, from position i on
RECURSIVE TagsOf(_, _, _)
TagsOf(s, i, names) ==
    IF i > Len(s) THEN <<>>
    ELSE LET t == TagAt(s, i, names)
         IN  IF t # <<>> THEN <<t>> \o TagsOf(s, i + 1, names)
             ELSE TagsOf(s, i + 1, names)

\* a is b with some elements left out
RECURSIVE IsSubsequence(_, _)
IsSubsequence(a, b) ==
    IF a = <<>> THEN TRUE
    ELSE IF b = <<>> THEN FALSE
    ELSE IF a[1] = b[1] THEN IsSubsequence(Tail(a), Tail(b))
    ELSE IsSubsequence(a, Tail(b))

SpeakerTags == Range(additional_tags)

\* the least j >= i at which a speaker tag opens, or Len(s) + 1
RECURSIVE NextOpening(_, _)
NextOpening(s, i) ==
    IF i > Len(s) THEN Len(s) + 1
    ELSE IF \E t \in SpeakerTags : StartsWith(s, i, OpenTag(t)) THEN i
    ELSE NextOpening(s, i + 1)

\* every speaker tag opened in s is closed by its own closing tag before the
\* next speaker tag opens or the text ends
Closed(s) ==
    \A i \in 1..Len(s) : \A t \in SpeakerTags :
        StartsWith(s, i, OpenTag(t)) =>
            \E j \in (i + 3)..(NextOpening(s, i + 3) - 4) : StartsWith(s, j, CloseTag(t))

HasSpeakerTag(s) == TagsOf(s, 1, SpeakerTags) # <<>>

\* C5: for a well-formed transcript split_qa returns one turn per
\* (Person1, Person2) pair plus one closing turn, the last, whose Person1 text
\* is empty and whose Person2 text is the ending message.
C5_ClosingTurn ==
    \A ps \in WellFormed :
        (qa # <<>> /\ input_text = Transcript(ps)) =>
            /\ Len(qa[1]) = Len(ps) + 1
            /\ qa[1][Len(ps) + 1] = <<<<>>, ending_message>>

\* C7: clean_tss_markup is idempotent: applied to its own output it returns
\* that output.
C7_Idempotent == Len(cleaned) >= 2 => cleaned[2] = cleaned[1]

\* C8: every opening and closing tag of the input whose name is supported or
\* preserved is still in the output of clean_tss_markup, in the same order.
C8_KeepsSupportedTags ==
    cleaned # <<>> =>
        IsSubsequence(TagsOf(input_text, 1, supported_tags \cup SpeakerTags),
                      TagsOf(cleaned[1], 1, supported_tags \cup SpeakerTags))

\* C9: in every output of clean_tss_markup each opened speaker tag is followed
\* by its own closing tag before the next speaker tag opens or the text ends.
C9_OpenedIsClosed == \A k \in 1..Len(cleaned) : Closed(cleaned[k])

\* C9 happens: the input opened a speaker tag it never closed, and the output
\* still opens it.
C9_Witness ==
    /\ cleaned # <<>>
    /\ ~Closed(input_text)
    /\ TagsOf(input_text, 1, SpeakerTags) = << <<"open", "Person1">> >>
    /\ <<"open", "Person1">> \in Range(TagsOf(cleaned[1], 1, SpeakerTags))

\* C10: no text of a turn split_qa returns holds a speaker tag, and a
\* transcript that is one unclosed Person1 segment yields no turn.
C10_NoPartialTurn ==
    qa # <<>> =>
        /\ \A k \in 1..Len(qa[1]) : ~HasSpeakerTag(qa[1][k][1]) /\ ~HasSpeakerTag(qa[1][k][2])
        /\ (\E l \in Lines : input_text = OpenTag("Person1") \o l) => qa[1] = <<>>

(***************************************************************************)
(* Properties of convert_to_speech                                         *)
(***************************************************************************)
\* the overlap of the call before the k-th (0.0 before the first)
OverlapBefore(k) == IF k = 1 THEN 0 ELSE calls[k - 1].overlap

\* no clip of this run was shorter than its overlap plus the one before
NoNegativeSilence ==
    \A k \in 1..Len(calls) :
        calls[k].ok => SilenceDuration(calls[k].dur, calls[k].overlap, OverlapBefore(k)) >= 0

\* the google loop has just appended the clip of the last call and its silence
ClipAppended ==
    /\ model = "google"
    /\ pc \in {"synth", "trailing"}
    /\ calls # <<>>

\* the trailing silence of the google backend has been appended
TrailingAppended ==
    /\ model = "google"
    /\ pc \in {"export_q", "export_a", "export_mix", "done"}

\* by how much the track of the speaker of the last clip is the longer one
SpeakerLead ==
    IF IsQuestion(Len(calls)) THEN combined_q - combined_a ELSE combined_a - combined_q

\* C1 as claimed: after every clip and its silence have been appended, the
\* question track and the answer track have the same length.
C1_EqualAfterEachStep == ClipAppended => combined_q = combined_a

\* C1 as amended: while no clip is shorter than its overlap plus the previous
\* one, after each clip the track of the speaker who just spoke is longer than
\* the other by that clip's overlap, and the two tracks have the same length
\* once the trailing silence has been appended.
C1_EqualAfterTrailing ==
    NoNegativeSilence =>
        /\ ClipAppended => SpeakerLead = last_overlap_duration
        /\ TrailingAppended => combined_q = combined_a

\* C1 happens: a google run of two turns, no silence negative, ended with two
\* equal tracks.
C1_Witness ==
    /\ model = "google" /\ pc = "done"
    /\ Len(calls) = 4
    /\ NoNegativeSilence
    /\ combined_q = combined_a /\ combined_q > 0

\* C2: when the computed silence_duration is negative, the silence appended has
\* length zero, an error is recorded and the run does not fail.
C2_ClampedAndRecorded ==
    /\ model = "google"
    /\ calls # <<>> /\ calls[Len(calls)].ok
    /\ pc \in {"synth", "trailing"} \/ (pc = "failed" /\ error = "assemble")
    /\ silence_duration < 0
    => /\ pc # "failed"
       /\ silence = 0
       /\ log # <<>>

\* C3: when a synthesis call or an assembly or export step of a run (here: of a
\* run with at least one turn) fails, the error reaches the caller, no
\* synthesis call follows the failing one and the run has written no output file.
C3_NoOutputOnFailure ==
    (pc = "failed" /\ error # "remove" /\ qa_pairs # <<>>) =>
        /\ error # "none"
        /\ \A k \in 1..(Len(calls) - 1) : calls[k].ok
        /\ written = {}

\* C4: a run whose transcript yields no turn makes no synthesis call, writes no
\* output file and does not end in success.
C4_ZeroTurnsFail ==
    (run > 0 /\ qa_pairs = <<>>) =>
        /\ calls = <<>>
        /\ written = {}
        /\ pc # "done"

\* C6: the output of a successful run of a sequential backend (here: of a run
\* with at least one clip) is the clips that run synthesized, in call order.
C6_OutputIsThisRunsClips ==
    (model \in {"openai", "elevenlabs"} /\ pc = "done" /\ calls # <<>>) =>
        Content(written, "output") = [k \in 1..Len(calls) |-> Clip(k)]

====
